---- MODULE Spec2Model ----
(***************************************************************************)
(* A model of rust-rocket: the keyframe track store (src/src/track.rs),    *)
(* the interpolation kinds (src/src/interpolation.rs), the live client's   *)
(* connection state machine and track lookups (src/src/client.rs), the     *)
(* persistence blob (src/src/client.rs, src/src/track.rs,                  *)
(* src/src/player.rs) and the offline player (src/src/player.rs).          *)
(*                                                                         *)
(* Conventions.                                                            *)
(*  - A Vec is a sequence; Rust's 0-based position p is the 1-based        *)
(*    position p + 1.  An Option<usize> position is 0 for None.            *)
(*  - An f32 is carried as its IEEE-754 bit pattern (a natural number);    *)
(*    F32Bits/F32Num convert between the small whole numbers the model     *)
(*    uses as key values and their bit patterns.                           *)
(*  - The f32 row handed to get_value is carried in half rows: row2 = 2 *  *)
(*    row, so that whole rows and the midpoints between them are covered.  *)
(*  - The arithmetic of get_value is carried out on exact fractions        *)
(*    [num, den]; f32 rounding is not modelled.                            *)
(***************************************************************************)
EXTENDS Integers, Sequences, FiniteSets, TLC

\* ------------------------------------------------------------------ bounds

\* Key rows of the track specification are 0..MaxRow.
MaxRow == 2

\* Key values of the track specification are the f32s 0.0 .. MaxVal.0.
MaxVal == 1

\* The editor sends at most MaxMsgs messages in one run of the client.
MaxMsgs == 2

\* The bytes of one run reach the socket's receive buffer in at most
\* MaxArrivals pieces, cut at any byte.
MaxArrivals == 2
MaxTracks == 3

\* ------------------------------------------------------- interpolation.rs

Step == 0
Linear == 1
Smooth == 2
Ramp == 3

Interpolations == {Step, Linear, Smooth, Ramp}

\* impl From<u8> for Interpolation: an unknown raw code is Step.
\* The conversion from u8 with the codes above 3 clamped to the last kind.
InterpolationFromU8_clamped(raw) == IF raw >= 3 THEN Ramp ELSE raw

InterpolationFromU8(raw) ==
    CASE raw = 0 -> Step
      [] raw = 1 -> Linear
      [] raw = 2 -> Smooth
      [] raw = 3 -> Ramp
      [] OTHER -> Step

\* Exact fractions, kept in lowest terms with a positive denominator.
RECURSIVE Gcd(_, _)
Gcd(a, b) == IF b = 0 THEN a ELSE Gcd(b, a % b)

Abs(n) == IF n < 0 THEN -n ELSE n

Frac(n, d) ==
    LET g == Gcd(Abs(n), d)
    IN  [num |-> n \div g, den |-> d \div g]

FracOfInt(n) == [num |-> n, den |-> 1]

\* interpolate with Step jumping at once: the constant 1 instead of 0.
interpolate_step_one(kind, t) ==
    CASE kind = Step -> FracOfInt(1)
      [] kind = Linear -> t
      [] kind = Smooth ->
            Frac(t.num * t.num * (3 * t.den - 2 * t.num), t.den * t.den * t.den)
      [] kind = Ramp -> Frac(t.num * t.num, t.den * t.den)

\* Interpolation::interpolate(&self, t) with t = t.num / t.den.
interpolate(kind, t) ==
    CASE kind = Step -> FracOfInt(0)
      [] kind = Linear -> t
      [] kind = Smooth ->
            Frac(t.num * t.num * (3 * t.den - 2 * t.num), t.den * t.den * t.den)
      [] kind = Ramp -> Frac(t.num * t.num, t.den * t.den)

\* ----------------------------------------------------------------- f32

RECURSIVE Pow2(_)
Pow2(n) == IF n = 0 THEN 1 ELSE 2 * Pow2(n - 1)

RECURSIVE Log2Floor(_)
Log2Floor(n) == IF n < 2 THEN 0 ELSE 1 + Log2Floor(n \div 2)

\* The bit pattern of the f32 that equals the whole number n, 0 <= n < 2^24:
\* sign 0, biased exponent 127 + e, the 23 fraction bits of n / 2^e.
F32Bits(n) ==
    IF n = 0 THEN 0
    ELSE LET e == Log2Floor(n)
         IN  (127 + e) * Pow2(23) + (n - Pow2(e)) * Pow2(23 - e)

\* The whole number a non-negative f32 bit pattern stands for: 2^e plus the
\* fraction bits shifted down, for the unbiased exponent e.  It is defined on the
\* patterns of whole numbers, which are the key values get_value is evaluated
\* on in this model.
F32Num(bits) ==
    IF bits = 0 THEN 0
    ELSE LET e == (bits \div Pow2(23)) - 127
             frac == bits % Pow2(23)
         IN  CHOOSE n \in {Pow2(e) + frac \div Pow2(23 - e)} : F32Bits(n) = bits

\* ---------------------------------------------------------------- track.rs

\* struct Key { row: u32, value: f32, interpolation: Interpolation }
Key(row, value, interp) == [row |-> row, value |-> value, interpolation |-> interp]

\* Track::new(name): a track with no keys.  A name is the sequence of its
\* UTF-8 bytes.
TrackNew(name) == [name |-> name, keys |-> <<>>]

\* "test", the track name of the tests.
TestName == <<116, 101, 115, 116>>

\* The first 1-based position whose key satisfies P, 0 when there is none
\* (Iterator::position).
Position(keys, P(_)) ==
    IF \E i \in 1..Len(keys) : P(keys[i])
    THEN CHOOSE i \in 1..Len(keys) :
            P(keys[i]) /\ \A j \in 1..(i - 1) : ~P(keys[j])
    ELSE 0

get_exact_position(keys, row) ==
    LET P(k) == k.row = row IN Position(keys, P)

\* get_insert_position with the comparison turned round.
get_insert_position_le(keys, row) ==
    LET P(k) == k.row <= row IN Position(keys, P)

get_insert_position(keys, row) ==
    LET P(k) == k.row >= row IN Position(keys, P)

\* get_lower_bound_position stopping at the first key at or after row.
get_lower_bound_position_ge(keys, row) ==
    LET P(k) == k.row >= row
        p == Position(keys, P)
    IN  (IF p = 0 THEN Len(keys) ELSE p - 1) - 1

\* get_lower_bound_position without its subtraction of 1.
get_lower_bound_position_no_minus(keys, row) ==
    LET P(k) == k.row > row
        p == Position(keys, P)
    IN  IF p = 0 THEN Len(keys) ELSE p - 1

\* get_lower_bound_position: the 0-based position of the first key whose row
\* is greater than row, or the key count when there is none, minus 1.
get_lower_bound_position(keys, row) ==
    LET P(k) == k.row > row
        p == Position(keys, P)
    IN  (IF p = 0 THEN Len(keys) ELSE p - 1) - 1

\* Vec::insert(pos, key) at 1-based position pos.
VecInsert(keys, pos, key) ==
    SubSeq(keys, 1, pos - 1) \o <<key>> \o SubSeq(keys, pos, Len(keys))

\* Vec::remove(pos) at 1-based position pos.
VecRemove(keys, pos) ==
    SubSeq(keys, 1, pos - 1) \o SubSeq(keys, pos + 1, Len(keys))

\* set_key without the replace-in-place branch.
set_key_no_replace(keys, key) ==
    LET ins == get_insert_position(keys, key.row)
    IN  IF ins # 0 THEN VecInsert(keys, ins, key) ELSE Append(keys, key)

\* Track::set_key
set_key(keys, key) ==
    LET exact == get_exact_position(keys, key.row)
        ins == get_insert_position(keys, key.row)
    IN  IF exact # 0 THEN [keys EXCEPT ![exact] = key]
        ELSE IF ins # 0 THEN VecInsert(keys, ins, key)
        ELSE Append(keys, key)

\* delete_key removing the key at the insert position (>= row, not == row).
delete_key_at_insert(keys, row) ==
    LET pos == get_insert_position(keys, row)
    IN  IF pos # 0 THEN VecRemove(keys, pos) ELSE keys

\* Track::delete_key
delete_key(keys, row) ==
    LET exact == get_exact_position(keys, row)
    IN  IF exact # 0 THEN VecRemove(keys, exact) ELSE keys

\* row.floor() as u32 for row = row2 / 2: the cast saturates below at 0.
\* (It also saturates above at u32::MAX, which the model's rows stay far below.)
FloorAsU32(row2) ==
    LET f == row2 \div 2 IN IF f < 0 THEN 0 ELSE f

\* What a call that panics returns: no value.
Panic == [num |-> 0, den |-> 0]

\* The interpolating branch of Track::get_value (lines 116-124).  The
\* subtraction in get_lower_bound_position underflows when it yields -1, and
\* keys[pos] and keys[pos + 1] are bounds-checked: each of these panics.
Interpolated(keys, row2) ==
    LET pos == get_lower_bound_position(keys, FloorAsU32(row2))
    IN  IF pos < 0 \/ pos + 2 > Len(keys) THEN Panic
        ELSE LET lower == keys[pos + 1]
                 higher == keys[pos + 2]
                 t == Frac(row2 - 2 * lower.row, 2 * (higher.row - lower.row))
                 it == interpolate(lower.interpolation, t)
                 lv == F32Num(lower.value)
                 hv == F32Num(higher.value)
             IN  Frac(lv * it.den + (hv - lv) * it.num, it.den)

\* get_value with strict comparisons at both ends.
get_value_strict(keys, row2) ==
    LET lower_row == FloorAsU32(row2)
    IN  IF Len(keys) = 0 THEN FracOfInt(0)
        ELSE IF lower_row < keys[1].row THEN FracOfInt(F32Num(keys[1].value))
        ELSE IF lower_row > keys[Len(keys)].row
             THEN FracOfInt(F32Num(keys[Len(keys)].value))
        ELSE Interpolated(keys, row2)

\* Track::get_value(row) for row = row2 / 2.
get_value(keys, row2) ==
    LET lower_row == FloorAsU32(row2)
    IN  IF Len(keys) = 0 THEN FracOfInt(0)
        ELSE IF lower_row <= keys[1].row THEN FracOfInt(F32Num(keys[1].value))
        ELSE IF lower_row >= keys[Len(keys)].row
             THEN FracOfInt(F32Num(keys[Len(keys)].value))
        ELSE Interpolated(keys, row2)

\* ------------------------------------------------------------------- state

VARIABLES
    track,      \* a Track driven directly through its methods
    lastOp,     \* the last method called on track, with its argument
    result,     \* the value the last get_value call returned
    tracks,     \* RocketClient.tracks
    state,      \* RocketClient.state: "New", "Incomplete" or "Complete"
    remaining,  \* the byte count of ClientState::Incomplete(n), else 0
    cmd,        \* RocketClient.cmd
    sock,       \* the bytes the editor has sent and the client has not read
    avail,      \* how many of them have arrived in the socket's buffer
    arrivals,   \* how many pieces have arrived so far
    sent,       \* the messages the editor has sent, in order
    ret,        \* what the last poll_event call returned
    alive,      \* "ok", or "panic" once a call has panicked
    peer,       \* the editor's end of the connection: "open", "closed", "reset"
    polling,    \* TRUE while a poll_events call is in its loop
    lookup,     \* the last track lookup: the call, the name and what it returned
    announced,  \* the GET_TRACK messages sent to the editor, in order
    log,        \* the mutations applied and the events returned, in order
    blob,       \* the bytes the last RocketClient::serialize call returned
    saved,      \* the client's tracks when that call was made
    player      \* what RocketPlayer::deserialize made of blob

trackVars == <<track, lastOp, result>>
clientVars ==
    <<tracks, state, remaining, cmd, sock, avail, arrivals, sent, ret, alive, log,
      peer, polling, lookup, announced>>
persistVars == <<blob, saved, player>>
vars == <<track, lastOp, result, tracks, state, remaining, cmd, sock, avail,
          arrivals, sent, ret, alive, log, peer, polling, lookup, announced,
          blob, saved, player>>

\* ------------------------------------------------------------- inputs

Rows == 0..MaxRow
Values == {F32Bits(v) : v \in 0..MaxVal}
KeyInputs == {Key(r, v, i) : r \in Rows, v \in Values, i \in Interpolations}

\* get_value is asked at every half row from one row before row 0 to one
\* row after the last key (after MaxRow for a track without keys).
QueryRows2(keys) ==
    (-2)..(2 * ((IF Len(keys) = 0 THEN MaxRow ELSE keys[Len(keys)].row) + 1))

\* The track of tests::test_three_keys: {0: 1.0, 5: 0.0, 10: 1.0}, all Step.
ThreeKeys ==
    set_key(set_key(set_key(<<>>, Key(0, F32Bits(1), Step)),
                    Key(5, F32Bits(0), Step)),
            Key(10, F32Bits(1), Step))

NoOp == [op |-> "none", row |-> 0, value |-> 0, interpolation |-> Step, found |-> FALSE]

\* ---------------------------------------------------------------- client.rs

\* A u32 as its four big-endian bytes (WriteBytesExt::write_u32::<BigEndian>).
U32BE(n) ==
    <<(n \div 16777216) % 256, (n \div 65536) % 256, (n \div 256) % 256, n % 256>>

\* Cursor::read_u32::<LE> of the four bytes of buf from 1-based pos.
ReadU32LE(buf, pos) ==
    buf[pos] + buf[pos + 1] * 256 + buf[pos + 2] * 65536 + buf[pos + 3] * 16777216

\* read_u32::<BigEndian> taking the bytes in little-endian order.
ReadU32BE_swapped(buf, pos) ==
    buf[pos] + buf[pos + 1] * 256 + buf[pos + 2] * 65536 + buf[pos + 3] * 16777216

\* Cursor::read_u32::<BigEndian> of the four bytes of buf from 1-based pos.
\* read_f32::<BigEndian> reads the same four bytes as the f32's bit pattern.
ReadU32BE(buf, pos) ==
    buf[pos] * 16777216 + buf[pos + 1] * 65536 + buf[pos + 2] * 256 + buf[pos + 3]

\* A message of the editor: its tag and the fields its payload carries (the
\* fields a tag does not carry are 0).
Msg(tag, trk, row, value, interp, flag) ==
    [tag |-> tag, track |-> trk, row |-> row, value |-> value,
     interp |-> interp, flag |-> flag]

SetKeyMsg(trk, row, value, interp) == Msg(0, trk, row, value, interp, 0)
DeleteKeyMsg(trk, row) == Msg(1, trk, row, 0, 0, 0)
SetRowMsg(row) == Msg(3, 0, row, 0, 0, 0)
PauseMsg(flag) == Msg(4, 0, 0, 0, 0, flag)
SaveTracksMsg == Msg(5, 0, 0, 0, 0, 0)

\* The bytes of a message on the wire: the layout poll_event reads back.
Encode(m) ==
    CASE m.tag = 0 -> <<0>> \o U32BE(m.track) \o U32BE(m.row) \o U32BE(m.value)
                          \o <<m.interp>>
      [] m.tag = 1 -> <<1>> \o U32BE(m.track) \o U32BE(m.row)
      [] m.tag = 3 -> <<3>> \o U32BE(m.row)
      [] m.tag = 4 -> <<4>> \o <<m.flag>>
      [] OTHER -> <<m.tag>>

RECURSIVE EncodeAll(_)
EncodeAll(ms) == IF ms = <<>> THEN <<>> ELSE Encode(Head(ms)) \o EncodeAll(Tail(ms))

\* The tag match of state New asking for one payload byte after an unknown tag.
PayloadLen_unknown_one(tag) ==
    CASE tag = 0 -> 4 + 4 + 4 + 1
      [] tag = 1 -> 4 + 4
      [] tag = 3 -> 4
      [] tag = 4 -> 1
      [] tag = 5 -> 0
      [] OTHER -> 1

\* The tag match of state New asking for 9 payload bytes after a set-key tag.
PayloadLen_set_key_nine(tag) ==
    CASE tag = 0 -> 4 + 4 + 1
      [] tag = 1 -> 4 + 4
      [] tag = 3 -> 4
      [] tag = 4 -> 1
      [] tag = 5 -> 0
      [] OTHER -> 0

\* The payload length poll_event expects after a tag byte (state New).
PayloadLen(tag) ==
    CASE tag = 0 -> 4 + 4 + 4 + 1
      [] tag = 1 -> 4 + 4
      [] tag = 3 -> 4
      [] tag = 4 -> 1
      [] tag = 5 -> 0
      [] OTHER -> 0

\* One entry of the log: a mutation applied to a track, or an Event returned.
Entry(kind, trk, row, value, interp, flag) ==
    [kind |-> kind, track |-> trk, row |-> row, value |-> value,
     interpolation |-> interp, flag |-> flag]

NoEvent == Entry("none", 0, 0, 0, Step, FALSE)

\* ReceiveResult
RetNone == [kind |-> "None", event |-> NoEvent]
RetIncomplete == [kind |-> "Incomplete", event |-> NoEvent]
RetSome(event) == [kind |-> "Some", event |-> event]

\* Err(Error::IOError(e)), which poll_events hands on with its ? operator.
RetErr == [kind |-> "Err", event |-> NoEvent]

\* A track lookup: the call made, the name asked for, the 0-based index
\* returned (-1 for None and for Err) and whether an index was returned.
Lookup(op, name, index, found) ==
    [op |-> op, name |-> name, index |-> index, found |-> found]

NoLookup == Lookup("none", <<>>, -1, FALSE)

\* The longest command buffer the model keeps: room for the tag and for one
\* buffer of 13 bytes more than MaxArrivals pieces can make poll_event append.
MaxCmd == 1 + 13 * (MaxArrivals + 1)

Zeros(n) == [i \in 1..n |-> 0]

\* What the match on the tag in state Complete decodes from the buffer: the
\* mutation to apply or the Event to return ("none" for an unknown tag).
Decode(buf) ==
    CASE buf[1] = 0 ->
            Entry("set_key", ReadU32BE(buf, 2), ReadU32BE(buf, 6), ReadU32BE(buf, 10),
                  InterpolationFromU8(buf[14]), FALSE)
      [] buf[1] = 1 ->
            Entry("delete_key", ReadU32BE(buf, 2), ReadU32BE(buf, 6), 0, Step, FALSE)
      [] buf[1] = 3 -> Entry("SetRow", 0, ReadU32BE(buf, 2), 0, Step, FALSE)
      [] buf[1] = 4 -> Entry("Pause", 0, 0, 0, Step, buf[2] = 1)
      [] buf[1] = 5 -> Entry("SaveTracks", 0, 0, 0, Step, FALSE)
      [] OTHER -> NoEvent

\* What the state machine does with message m when all of it is delivered at
\* once: the buffer in state Complete is Encode(m).
WholeEffect(m) == Decode(Encode(m))

IsMutation(e) == e.kind \in {"set_key", "delete_key"}
\* The match of state Complete leaving result at None for SAVE_TRACKS.
IsEvent_no_save(e) == e.kind \in {"SetRow", "Pause"}

IsEvent(e) == e.kind \in {"SetRow", "Pause", "SaveTracks"}

\* The tracks after a decoded mutation is applied to tracks[e.track].
Apply(ts, e) ==
    [ts EXCEPT ![e.track + 1].keys =
        IF e.kind = "set_key"
        THEN set_key(@, Key(e.row, e.value, e.interpolation))
        ELSE delete_key(@, e.row)]

\* RocketClient::connect: state New, no command bytes, no tracks.
Connected ==
    /\ tracks = <<>>
    /\ state = "New"
    /\ remaining = 0
    /\ cmd = <<>>
    /\ ret = RetNone
    /\ alive = "ok"
    /\ log = <<>>
    /\ peer = "open"
    /\ polling = FALSE
    /\ lookup = NoLookup
    /\ announced = <<>>

\* The editor has sent the messages ms; none of their bytes has arrived.
EditorSent(ms) ==
    /\ sent = ms
    /\ sock = EncodeAll(ms)
    /\ avail = 0
    /\ arrivals = 0

\* No serialize call has been made, and no player built.
NoBlob == <<>>
NoPlayer == [built |-> FALSE, panicked |-> FALSE, tracks |-> <<>>]

NothingSaved ==
    /\ blob = NoBlob
    /\ saved = <<>>
    /\ player = NoPlayer

ClientIdle == Connected /\ EditorSent(<<>>) /\ NothingSaved

\* The scan for a name starting at the second track.
FindTrack_from_second(ts, name) ==
    IF \E i \in 2..Len(ts) : ts[i].name = name
    THEN CHOOSE i \in 2..Len(ts) :
            ts[i].name = name /\ \A j \in 2..(i - 1) : ts[j].name # name
    ELSE 0

\* The scan for a name keeping the last match.
FindTrack_last(ts, name) ==
    IF \E i \in 1..Len(ts) : ts[i].name = name
    THEN CHOOSE i \in 1..Len(ts) :
            ts[i].name = name /\ \A j \in (i + 1)..Len(ts) : ts[j].name # name
    ELSE 0

\* The first 1-based index of the track called name, 0 when there is none.
FindTrack(ts, name) ==
    IF \E i \in 1..Len(ts) : ts[i].name = name
    THEN CHOOSE i \in 1..Len(ts) :
            ts[i].name = name /\ \A j \in 1..(i - 1) : ts[j].name # name
    ELSE 0

\* RocketEngine::get_track_index(name) of the client: the index of the first
\* track with that name, None when there is none.
GetTrackIndex(name) ==
    /\ alive = "ok"
    /\ ~polling
    /\ lookup' = Lookup("get_track_index", name, FindTrack(tracks, name) - 1,
                        FindTrack(tracks, name) # 0)
    /\ UNCHANGED <<tracks, state, remaining, cmd, sock, avail, arrivals, sent, ret,
                   alive, log, peer, polling, announced>>
    /\ UNCHANGED <<trackVars, persistVars>>

\* The GET_TRACK message for name: tag 2, the name's length as a big-endian
\* u32, the name's bytes.
GetTrackBytes(name) == <<2>> \o U32BE(Len(name)) \o name

\* get_track_index_mut sending GET_TRACK whether or not the name is known.
GetTrackIndexMut_always_sends(name) ==
    /\ alive = "ok"
    /\ ~polling
    /\ announced' = Append(announced, GetTrackBytes(name))
    /\ IF FindTrack(tracks, name) # 0
       THEN /\ lookup' = Lookup("get_track_index_mut", name,
                                FindTrack(tracks, name) - 1, TRUE)
            /\ UNCHANGED tracks
       ELSE /\ tracks' = Append(tracks, TrackNew(name))
            /\ lookup' = Lookup("get_track_index_mut", name, Len(tracks') - 1, TRUE)
    /\ UNCHANGED <<state, remaining, cmd, sock, avail, arrivals, sent, ret, alive,
                   log, peer, polling>>
    /\ UNCHANGED <<trackVars, persistVars>>

\* RocketClient::get_track_index_mut(name): the index of a known name; a name
\* not yet known is announced to the editor and, when write_all succeeds,
\* appended as an empty track.  write_all fails or succeeds once the editor has
\* gone (the first write to a dead connection may still be accepted).
GetTrackIndexMut(name) ==
    /\ alive = "ok"
    /\ ~polling
    /\ IF FindTrack(tracks, name) # 0
       THEN /\ lookup' = Lookup("get_track_index_mut", name,
                                FindTrack(tracks, name) - 1, TRUE)
            /\ UNCHANGED <<tracks, announced>>
       ELSE \/ /\ announced' = Append(announced, GetTrackBytes(name))
               /\ tracks' = Append(tracks, TrackNew(name))
               /\ lookup' = Lookup("get_track_index_mut", name, Len(tracks') - 1, TRUE)
            \/ /\ peer # "open"
               /\ lookup' = Lookup("get_track_index_mut", name, -1, FALSE)
               /\ UNCHANGED <<tracks, announced>>
    /\ UNCHANGED <<state, remaining, cmd, sock, avail, arrivals, sent, ret, alive,
                   log, peer, polling>>
    /\ UNCHANGED <<trackVars, persistVars>>

\* The next n of the sent bytes arrive in the socket's receive buffer.  A read
\* sees only how many bytes are there when it is made, so pieces that arrive
\* with no read between them act as one piece, and a piece that arrives while
\* bytes are still unread acts as if it had come with them: the model lets a
\* piece arrive only into an empty buffer, which leaves every sequence of read
\* results possible.
Arrive(n) ==
    /\ avail = 0
    /\ arrivals < MaxArrivals
    /\ 1 <= n /\ n <= Len(sock)
    /\ avail' = n
    /\ arrivals' = arrivals + 1
    /\ UNCHANGED <<tracks, state, remaining, cmd, sock, sent, ret, alive, log,
                   peer, polling, lookup, announced>>
    /\ UNCHANGED <<trackVars, persistVars>>

\* The editor closes the connection after the bytes it has sent: once they are
\* all read, a read finds the end of the stream.
PeerClose ==
    /\ peer = "open"
    /\ peer' = "closed"
    /\ UNCHANGED <<tracks, state, remaining, cmd, sock, avail, arrivals, sent, ret,
                   alive, log, polling, lookup, announced>>
    /\ UNCHANGED <<trackVars, persistVars>>

\* The connection is reset: the unread bytes are dropped and reads fail.
PeerReset ==
    /\ peer = "open"
    /\ peer' = "reset"
    /\ sock' = <<>>
    /\ avail' = 0
    /\ UNCHANGED <<tracks, state, remaining, cmd, arrivals, sent, ret, alive, log,
                   polling, lookup, announced>>
    /\ UNCHANGED <<trackVars, persistVars>>

\* What a read of the non-blocking stream finds: bytes ("Ok"), the end of the
\* stream ("Eof"), a failure ("Err", ConnectionReset) or nothing yet
\* ("WouldBlock").
ReadKind ==
    IF avail > 0 THEN "Ok"
    ELSE IF peer = "reset" THEN "Err"
    ELSE IF peer = "closed" /\ sock = <<>> THEN "Eof"
    ELSE "WouldBlock"

\* RocketClient::poll_events is called: it enters its loop.
PollEvents ==
    /\ alive = "ok"
    /\ ~polling
    /\ polling' = TRUE
    /\ UNCHANGED <<tracks, state, remaining, cmd, sock, avail, arrivals, sent, ret,
                   alive, log, peer, lookup, announced>>
    /\ UNCHANGED <<trackVars, persistVars>>

\* One turn of the loop of poll_events with poll_event in state New:
\* read_exact of one byte (the end of the stream is its UnexpectedEof error).
\* The loop goes on when poll_event returned Incomplete, else poll_events
\* returns.
PollEventNew ==
    /\ alive = "ok"
    /\ polling
    /\ state = "New"
    /\ CASE ReadKind = "Ok" ->
              /\ cmd' = cmd \o <<Head(sock)>>
              /\ sock' = Tail(sock)
              /\ avail' = avail - 1
              /\ LET n == PayloadLen(cmd'[1])
                 IN  /\ state' = IF n > 0 THEN "Incomplete" ELSE "Complete"
                     /\ remaining' = n
              /\ ret' = RetIncomplete
         [] ReadKind = "WouldBlock" ->
              /\ ret' = RetNone
              /\ UNCHANGED <<state, remaining, cmd, sock, avail>>
         [] OTHER ->
              /\ ret' = RetErr
              /\ UNCHANGED <<state, remaining, cmd, sock, avail>>
    /\ polling' = (ret'.kind = "Incomplete")
    /\ UNCHANGED <<tracks, arrivals, sent, alive, log, peer, lookup, announced>>
    /\ UNCHANGED <<trackVars, persistVars>>

\* One turn of the loop with poll_event in state Incomplete(bytes): one read
\* into a zeroed buffer of bytes bytes, all of which is appended to cmd
\* whatever the read returned; at the end of the stream the read returns
\* Ok(0).  (A cmd that would pass MaxCmd bytes is left as it is: the bytes
\* beyond the fourteenth are never decoded.)
PollEventIncomplete ==
    /\ alive = "ok"
    /\ polling
    /\ state = "Incomplete"
    /\ CASE ReadKind \in {"Ok", "Eof"} ->
              LET bytes == remaining
                  bytes_read == IF avail < bytes THEN avail ELSE bytes
                  buf == SubSeq(sock, 1, bytes_read) \o Zeros(bytes - bytes_read)
              IN  /\ cmd' = IF Len(cmd) + bytes > MaxCmd THEN cmd ELSE cmd \o buf
                  /\ sock' = SubSeq(sock, bytes_read + 1, Len(sock))
                  /\ avail' = avail - bytes_read
                  /\ state' = IF bytes - bytes_read > 0 THEN "Incomplete" ELSE "Complete"
                  /\ remaining' = bytes - bytes_read
                  /\ ret' = RetIncomplete
         [] ReadKind = "WouldBlock" ->
              /\ ret' = RetNone
              /\ UNCHANGED <<state, remaining, cmd, sock, avail>>
         [] OTHER ->
              /\ ret' = RetErr
              /\ UNCHANGED <<state, remaining, cmd, sock, avail>>
    /\ polling' = (ret'.kind = "Incomplete")
    /\ UNCHANGED <<tracks, arrivals, sent, alive, log, peer, lookup, announced>>
    /\ UNCHANGED <<trackVars, persistVars>>

\* One turn of the loop with poll_event in state Complete: decode cmd, apply a
\* mutation or return an Event, clear cmd and go back to New; poll_events
\* returns the Event, or None when there is none.  Indexing tracks out of
\* bounds panics.
PollEventComplete ==
    /\ alive = "ok"
    /\ polling
    /\ state = "Complete"
    /\ LET e == Decode(cmd)
       IN  IF IsMutation(e) /\ e.track >= Len(tracks)
           THEN /\ alive' = "panic"
                /\ UNCHANGED <<tracks, state, remaining, cmd, ret, log, polling>>
           ELSE /\ tracks' = IF IsMutation(e) THEN Apply(tracks, e) ELSE tracks
                /\ ret' = IF IsEvent(e) THEN RetSome(e) ELSE RetNone
                /\ log' = IF e = NoEvent THEN log ELSE Append(log, e)
                /\ cmd' = <<>>
                /\ state' = "New"
                /\ remaining' = 0
                /\ polling' = FALSE
                /\ UNCHANGED alive
    /\ UNCHANGED <<sock, avail, arrivals, sent, peer, lookup, announced>>
    /\ UNCHANGED <<trackVars, persistVars>>

\* ------------------------------------------- the client specification

\* The track name the client asks for: "a".
TrackNames == {<<97>>}

\* The sequences of at most n elements of S.
RECURSIVE SeqsUpTo(_, _)
SeqsUpTo(S, n) ==
    IF n = 0 THEN {<<>>}
    ELSE LET shorter == SeqsUpTo(S, n - 1)
         IN  shorter \cup {Append(q, x) : q \in shorter, x \in S}

\* The messages the editor sends in the client specification.
ClientMsgs ==
    { SetKeyMsg(0, 1, F32Bits(1), 1),
      SetKeyMsg(0, 2, F32Bits(2), 2),
      DeleteKeyMsg(0, 1),
      SetRowMsg(1),
      PauseMsg(1),
      SaveTracksMsg }

ClientInit ==
    /\ Connected
    /\ NothingSaved
    /\ \E ms \in SeqsUpTo(ClientMsgs, MaxMsgs) : EditorSent(ms)
    /\ track = TrackNew(TestName)
    /\ lastOp = NoOp
    /\ result = FracOfInt(0)

ClientNext ==
    \/ \E name \in TrackNames : GetTrackIndexMut(name)
    \/ PollEvents
    \/ \E n \in 1..Len(sock) : Arrive(n)
    \/ PollEventNew
    \/ PollEventIncomplete
    \/ PollEventComplete

ClientSpec == ClientInit /\ [][ClientNext]_vars

\* --------------------------------------------- the polling specification

\* The messages the editor sends in the polling specification: every receive
\* tag, interpolation codes inside and outside 0..3, and the tags 2 (send-only)
\* and 99, which the client does not know.
PollMsgs ==
    { SetKeyMsg(0, 1, F32Bits(1), 3),
      SetKeyMsg(0, 1, F32Bits(2), 4),
      SetKeyMsg(0, 2, F32Bits(1), 255),
      DeleteKeyMsg(0, 1),
      SetRowMsg(1),
      PauseMsg(0),
      SaveTracksMsg,
      Msg(2, 0, 0, 0, 0, 0),
      Msg(99, 0, 0, 0, 0, 0) }

\* The editor has sent the messages ms but for the last cut bytes of the last
\* one (it stopped in the middle of a message); none has arrived.
EditorSentPart(ms, cut) ==
    /\ sent = ms
    /\ sock = SubSeq(EncodeAll(ms), 1, Len(EncodeAll(ms)) - cut)
    /\ avail = 0
    /\ arrivals = 0

\* The polling specification: the demo's loop (asking for its track and
\* calling poll_events) against an editor that sends up to MaxMsgs messages, may stop in the
\* middle of the last one, and may close or reset the connection.  What was
\* sent arrives in one piece (the client specification splits it).
PollInit ==
    /\ Connected
    /\ NothingSaved
    /\ \E ms \in SeqsUpTo(PollMsgs, MaxMsgs) :
          \E cut \in 0..(IF ms = <<>> THEN 0 ELSE Len(Encode(ms[Len(ms)])) - 1) :
             EditorSentPart(ms, cut)
    /\ track = TrackNew(TestName)
    /\ lastOp = NoOp
    /\ result = FracOfInt(0)

PollNext ==
    \/ \E name \in TrackNames : GetTrackIndexMut(name)
    \/ Arrive(Len(sock))
    \/ PeerClose
    \/ PeerReset
    \/ PollEvents
    \/ PollEventNew
    \/ PollEventIncomplete
    \/ PollEventComplete

PollSpec == PollInit /\ [][PollNext]_vars

\* poll_events runs to its return once called: the loop's next turn is taken.
PollFairSpec ==
    /\ PollSpec
    /\ WF_vars(PollEventNew)
    /\ WF_vars(PollEventIncomplete)
    /\ WF_vars(PollEventComplete)

\* ---------------------------------------------- the lookup specification

\* The track names the demo asks for in the lookup specification.
LookupNames == {<<97>>, <<98>>, <<99>>}

\* The messages the editor sends in the lookup specification.
LookupMsgs ==
    { SetKeyMsg(0, 1, F32Bits(1), 1),
      SetKeyMsg(1, 2, F32Bits(2), 2),
      DeleteKeyMsg(0, 1),
      SetRowMsg(1) }

\* The lookup specification: the demo asks for tracks by name, in any order
\* and as often as it likes, between polls; the editor may close the
\* connection, after which the announcement of a new name may fail.
LookupInit ==
    /\ Connected
    /\ NothingSaved
    /\ \E ms \in SeqsUpTo(LookupMsgs, MaxMsgs) : EditorSent(ms)
    /\ track = TrackNew(TestName)
    /\ lastOp = NoOp
    /\ result = FracOfInt(0)

LookupNext ==
    \/ \E name \in LookupNames : GetTrackIndexMut(name)
    \/ \E name \in LookupNames : GetTrackIndex(name)
    \/ Arrive(Len(sock))
    \/ PeerClose
    \/ PollEvents
    \/ PollEventNew
    \/ PollEventIncomplete
    \/ PollEventComplete

LookupSpec == LookupInit /\ [][LookupNext]_vars

\* ------------------------------------------------- the persistence blob

\* write_u64::<LE> of a length (below 2^32: the upper four bytes are 0).
U64LE(n) ==
    <<n % 256, (n \div 256) % 256, (n \div 65536) % 256, (n \div 16777216) % 256,
      0, 0, 0, 0>>

\* write_u32::<LE>, also of an f32's bit pattern (write_f32::<LE>).
U32LE(n) ==
    <<n % 256, (n \div 256) % 256, (n \div 65536) % 256, (n \div 16777216) % 256>>

\* A length no buffer has: what a u64 with a non-zero upper half stands for.
Huge == 2147483647

\* Track::serialize
TrackSerialize(t) ==
    LET RECURSIVE KeysBytes(_)
        KeysBytes(ks) ==
            IF ks = <<>> THEN <<>>
            ELSE U32LE(Head(ks).row) \o U32LE(Head(ks).value)
                    \o U32LE(Head(ks).interpolation) \o KeysBytes(Tail(ks))
    IN  U64LE(Len(t.name)) \o t.name \o U64LE(Len(t.keys)) \o KeysBytes(t.keys)

\* RocketClient::serialize
Serialize(ts) ==
    LET RECURSIVE TracksBytes(_)
        TracksBytes(rest) ==
            IF rest = <<>> THEN <<>>
            ELSE TrackSerialize(Head(rest)) \o TracksBytes(Tail(rest))
    IN  U64LE(Len(ts)) \o TracksBytes(ts)

\* A Cursor read of n bytes at 0-based position pos fits in data.
Fits(data, pos, n) == pos + n <= Len(data)

\* read_u32::<LE> taking the bytes in big-endian order.
CursorU32LE_swapped(data, pos) ==
    data[pos + 1] * 16777216 + data[pos + 2] * 65536 + data[pos + 3] * 256 + data[pos + 4]

\* Cursor::read_u32::<LE> at 0-based position pos.
CursorU32LE(data, pos) == ReadU32LE(data, pos + 1)

\* Cursor::read_u64::<LE> at 0-based position pos.
CursorU64LE(data, pos) ==
    IF \E i \in 5..8 : data[pos + i] # 0 \/ data[pos + 4] >= 128 THEN Huge
    ELSE ReadU32LE(data, pos + 1)

\* std::str::from_utf8 accepts the bytes (single-byte characters only).
ValidUtf8(bytes) == \A i \in 1..Len(bytes) : bytes[i] < 128

PlayerPanic == [built |-> FALSE, panicked |-> TRUE, tracks |-> <<>>]

\* RocketPlayer::deserialize: every unwrap of a short read, the slice of the
\* name, from_utf8 and the unreachable!() of an interpolation code above 3
\* panic.
Deserialize(data) ==
    LET \* the keys loop: n keys left to read at pos, into track t
        RECURSIVE ReadKeys(_, _, _)
        ReadKeys(pos, n, t) ==
            IF n = 0 THEN [ok |-> TRUE, pos |-> pos, track |-> t]
            ELSE IF ~Fits(data, pos, 12) THEN [ok |-> FALSE, pos |-> pos, track |-> t]
            ELSE LET row == CursorU32LE(data, pos)
                     value == CursorU32LE(data, pos + 4)
                     code == CursorU32LE(data, pos + 8)
                 IN  IF code > 3 THEN [ok |-> FALSE, pos |-> pos, track |-> t]
                     ELSE ReadKeys(pos + 12, n - 1,
                                   [t EXCEPT !.keys = set_key(@, Key(row, value, code))])
        \* the tracks loop: n tracks left to read at pos, after the tracks ts
        RECURSIVE ReadTracks(_, _, _)
        ReadTracks(pos, n, ts) ==
            IF n = 0 THEN [built |-> TRUE, panicked |-> FALSE, tracks |-> ts]
            ELSE IF ~Fits(data, pos, 8) THEN PlayerPanic
            ELSE LET name_len == CursorU64LE(data, pos)
                 IN  IF ~Fits(data, pos + 8, name_len) THEN PlayerPanic
                     ELSE LET name == SubSeq(data, pos + 9, pos + 8 + name_len)
                              at == pos + 8 + name_len
                          IN  IF ~ValidUtf8(name) \/ ~Fits(data, at, 8) THEN PlayerPanic
                              ELSE LET key_count == CursorU64LE(data, at)
                                       r == ReadKeys(at + 8, key_count, TrackNew(name))
                                   IN  IF ~r.ok THEN PlayerPanic
                                       ELSE ReadTracks(r.pos, n - 1, Append(ts, r.track))
    IN  IF ~Fits(data, 0, 8) THEN PlayerPanic
        ELSE ReadTracks(8, CursorU64LE(data, 0), <<>>)

\* RocketClient::serialize, as the demo calls it to write the tracks file.
SerializeCall ==
    /\ alive = "ok"
    /\ blob' = Serialize(tracks)
    /\ saved' = tracks
    /\ UNCHANGED player
    /\ UNCHANGED <<trackVars, clientVars>>

\* RocketPlayer::deserialize of the bytes of the tracks file.
DeserializeCall ==
    /\ blob # NoBlob
    /\ player' = Deserialize(blob)
    /\ UNCHANGED <<blob, saved>>
    /\ UNCHANGED <<trackVars, clientVars>>

\* ---------------------------------------- the persistence specification

\* The track names the client asks for: "a" and "bc".
PersistNames == {<<97>>, <<98, 99>>}

\* The orders in which the client may have asked for these names.
NameOrders == {ns \in SeqsUpTo(PersistNames, Cardinality(PersistNames)) :
                 \A i, j \in 1..Len(ns) : i # j => ns[i] # ns[j]}

\* The key messages the client has handled in the persistence specification.
PersistMsgs ==
    { SetKeyMsg(0, 1, F32Bits(1), 1),
      SetKeyMsg(0, 258, F32Bits(2), 2),
      SetKeyMsg(1, 2, F32Bits(3), 3),
      SetKeyMsg(1, 0, F32Bits(0), 0),
      SetKeyMsg(1, 1, F32Bits(1), 1),
      SetKeyMsg(0, 2, F32Bits(0), 3),
      DeleteKeyMsg(0, 1),
      DeleteKeyMsg(1, 2) }

\* The tracks after state Complete has handled each message of ms in turn.
RECURSIVE ApplyAll(_, _)
ApplyAll(ts, ms) ==
    IF ms = <<>> THEN ts ELSE ApplyAll(Apply(ts, WholeEffect(Head(ms))), Tail(ms))

\* The persistence specification: serialize and then deserialize, applied to
\* any collection a client holds after it has asked for its tracks and handled
\* up to MaxMsgs key messages for them.
PersistInit ==
    /\ \E ns \in NameOrders :
          \E ms \in SeqsUpTo(PersistMsgs, MaxMsgs) :
             /\ \A i \in 1..Len(ms) : ms[i].track < Len(ns)
             /\ tracks = ApplyAll([i \in 1..Len(ns) |-> TrackNew(ns[i])], ms)
    /\ state = "New"
    /\ remaining = 0
    /\ cmd = <<>>
    /\ ret = RetNone
    /\ alive = "ok"
    /\ log = <<>>
    /\ peer = "open"
    /\ polling = FALSE
    /\ lookup = NoLookup
    /\ announced = <<>>
    /\ EditorSent(<<>>)
    /\ NothingSaved
    /\ track = TrackNew(TestName)
    /\ lastOp = NoOp
    /\ result = FracOfInt(0)

PersistNext ==
    \/ SerializeCall
    \/ DeserializeCall

PersistSpec == PersistInit /\ [][PersistNext]_vars

\* ------------------------------------------------ the load specification

\* The track collections of the persistence specification.
ClientTracks ==
    {ApplyAll([i \in 1..Len(ns) |-> TrackNew(ns[i])], ms) :
        <<ns, ms>> \in {nm \in NameOrders \X SeqsUpTo(PersistMsgs, MaxMsgs) :
                          \A i \in 1..Len(nm[2]) : nm[2][i].track < Len(nm[1])}}

\* Interpolation codes a tracks file may carry that this crate does not know.
ForeignCodes == {4, 7, 255, 256}

\* The load specification: the player's program reads a tracks file written
\* by a tool that knows more interpolation kinds (one key of the file carries
\* a code outside 0..3) and deserializes it.
LoadInit ==
    /\ Connected
    /\ EditorSent(<<>>)
    /\ \E ts \in ClientTracks :
          \E i \in 1..Len(ts) :
             \E k \in 1..Len(ts[i].keys) :
                \E code \in ForeignCodes :
                   /\ saved = [ts EXCEPT ![i].keys[k].interpolation = code]
                   /\ blob = Serialize(saved)
    /\ player = NoPlayer
    /\ track = TrackNew(TestName)
    /\ lastOp = NoOp
    /\ result = FracOfInt(0)

LoadNext == DeserializeCall

LoadSpec == LoadInit /\ [][LoadNext]_vars

\* ---------------------------------------------- the player specification

\* RocketPlayer::new(tracks)
PlayerNew(ts) == [built |-> TRUE, panicked |-> FALSE, tracks |-> ts]

\* RocketEngine::get_track_index(name) of the player.
PlayerGetTrackIndex(name) ==
    /\ alive = "ok"
    /\ lookup' = Lookup("get_track_index", name, FindTrack(player.tracks, name) - 1,
                        FindTrack(player.tracks, name) # 0)
    /\ UNCHANGED <<tracks, state, remaining, cmd, sock, avail, arrivals, sent, ret,
                   alive, log, peer, polling, announced>>
    /\ UNCHANGED <<trackVars, persistVars>>

\* RocketEngine::get_track_index_mut(name) of the player: the unwrap of
\* get_track_index's None panics.
PlayerGetTrackIndexMut(name) ==
    /\ alive = "ok"
    /\ IF FindTrack(player.tracks, name) # 0
       THEN /\ lookup' = Lookup("get_track_index_mut", name,
                                FindTrack(player.tracks, name) - 1, TRUE)
            /\ UNCHANGED alive
       ELSE /\ alive' = "panic"
            /\ UNCHANGED lookup
    /\ UNCHANGED <<tracks, state, remaining, cmd, sock, avail, arrivals, sent, ret,
                   log, peer, polling, announced>>
    /\ UNCHANGED <<trackVars, persistVars>>

\* RocketEngine::get_track(index) of the player: the demo now holds
\* &tracks[index]; an index out of bounds panics.
PlayerGetTrack(index) ==
    /\ alive = "ok"
    /\ IF index < Len(player.tracks)
       THEN /\ track' = player.tracks[index + 1]
            /\ lookup' = Lookup("get_track", lookup.name, index, TRUE)
            /\ UNCHANGED alive
       ELSE /\ alive' = "panic"
            /\ UNCHANGED <<track, lookup>>
    /\ UNCHANGED <<tracks, state, remaining, cmd, sock, avail, arrivals, sent, ret,
                   log, peer, polling, announced>>
    /\ UNCHANGED <<lastOp, result, persistVars>>

\* The names of the tracks a player is built from: "a" and "b".
PlayerNames == {<<97>>, <<98>>}

\* The key sequences of those tracks.
PlayerKeys == {<<>>, <<Key(0, F32Bits(1), Step)>>}

\* The player specification: a player built by RocketPlayer::new from any list
\* of at most MaxTracks tracks, names repeated or not, and asked for tracks by
\* name and by index.
PlayerInit ==
    /\ Connected
    /\ EditorSent(<<>>)
    /\ blob = NoBlob
    /\ saved = <<>>
    /\ \E ts \in SeqsUpTo([name : PlayerNames, keys : PlayerKeys], MaxTracks) :
          player = PlayerNew(ts)
    /\ track = TrackNew(TestName)
    /\ lastOp = NoOp
    /\ result = FracOfInt(0)

PlayerNext ==
    \/ \E name \in PlayerNames : PlayerGetTrackIndex(name)
    \/ \E name \in PlayerNames : PlayerGetTrackIndexMut(name)
    \/ \E index \in 0..MaxTracks : PlayerGetTrack(index)

PlayerSpec == PlayerInit /\ [][PlayerNext]_vars

\* ----------------------------------------------- the track specification

\* The track specification: one track, starting empty, driven through set_key
\* and delete_key in any order.
TrackInit ==
    /\ track = TrackNew(TestName)
    /\ lastOp = NoOp
    /\ result = FracOfInt(0)
    /\ ClientIdle

SetKeyCall(key) ==
    /\ track' = [track EXCEPT !.keys = set_key(track.keys, key)]
    /\ lastOp' = [op |-> "set_key", row |-> key.row, value |-> key.value,
                  interpolation |-> key.interpolation,
                  found |-> get_exact_position(track.keys, key.row) # 0]
    /\ UNCHANGED <<result, clientVars, persistVars>>

DeleteKeyCall(row) ==
    /\ track' = [track EXCEPT !.keys = delete_key(track.keys, row)]
    /\ lastOp' = [op |-> "delete_key", row |-> row, value |-> 0,
                  interpolation |-> Step,
                  found |-> get_exact_position(track.keys, row) # 0]
    /\ UNCHANGED <<result, clientVars, persistVars>>

TrackNext ==
    \/ \E key \in KeyInputs : SetKeyCall(key)
    \/ \E row \in Rows : DeleteKeyCall(row)

TrackSpec == TrackInit /\ [][TrackNext]_vars

\* The value specification: get_value applied once, at any query row, to any
\* track the track specification can reach (any strictly ascending key
\* sequence over Rows) or to the track of tests::test_three_keys.
SortedKeys(S, f) ==
    LET RECURSIVE Build(_)
        Build(T) ==
            IF T = {} THEN <<>>
            ELSE LET r == CHOOSE x \in T : \A y \in T : x <= y
                 IN  <<Key(r, f[r][1], f[r][2])>> \o Build(T \ {r})
    IN  Build(S)

ValueInit ==
    /\ \/ \E S \in SUBSET Rows :
             \E f \in [S -> Values \X Interpolations] :
                track = [name |-> TestName, keys |-> SortedKeys(S, f)]
       \/ track = [name |-> TestName, keys |-> ThreeKeys]
    /\ lastOp = NoOp
    /\ result = FracOfInt(0)
    /\ ClientIdle

GetValueCall(row2) ==
    /\ lastOp.op = "none"
    /\ result' = get_value(track.keys, row2)
    /\ lastOp' = [op |-> "get_value", row |-> row2, value |-> 0,
                  interpolation |-> Step, found |-> FALSE]
    /\ UNCHANGED <<track, clientVars, persistVars>>

ValueNext == \E row2 \in QueryRows2(track.keys) : GetValueCall(row2)

ValueSpec == ValueInit /\ [][ValueNext]_vars

\* ------------------------------------------------------------ properties

StrictlyAscending(keys) ==
    \A i \in 1..(Len(keys) - 1) : keys[i].row < keys[i + 1].row

KeySet(keys) == {keys[i] : i \in 1..Len(keys)}

HasRow(keys, row) == \E i \in 1..Len(keys) : keys[i].row = row

\* C2: after any sequence of set_key and delete_key calls on a track that
\* starts empty, the keys are strictly ascending by row (no two keys share a
\* row, and every key's row is less than the next key's row).
C2_KeysStrictlyAscending == StrictlyAscending(track.keys)

\* C2's case: a set_key at a new row that had to go between two keys.
C2_Witness ==
    /\ lastOp.op = "set_key"
    /\ ~lastOp.found
    /\ Len(track.keys) = 3
    /\ track.keys[2].row = lastOp.row

\* C3: set_key(k) leaves exactly the previous keys whose row differs from
\* k.row, plus k; the count is unchanged when a key existed at k.row and grows
\* by one when none did.
C3_SetKeyEffect ==
    [][lastOp'.op = "set_key" =>
         LET k == Key(lastOp'.row, lastOp'.value, lastOp'.interpolation)
             old == track.keys
             new == track'.keys
         IN  /\ KeySet(new) = {x \in KeySet(old) : x.row # k.row} \cup {k}
             /\ Len(new) = IF HasRow(old, k.row) THEN Len(old) ELSE Len(old) + 1
             /\ SelectSeq(new, LAMBDA x : x.row # k.row)
                  = SelectSeq(old, LAMBDA x : x.row # k.row)]_vars

\* C3's case: a set_key at an existing row of a track with other keys, which
\* now holds the new value and interpolation there.
C3_Witness ==
    /\ lastOp.op = "set_key"
    /\ lastOp.found
    /\ Len(track.keys) = 3
    /\ track.keys[2] = Key(lastOp.row, lastOp.value, lastOp.interpolation)

\* C4: delete_key(row) leaves the key sequence unchanged when no key has that
\* row, and otherwise removes exactly that key, the other keys and their order
\* unchanged.
C4_DeleteKeyEffect ==
    [][lastOp'.op = "delete_key" =>
         LET old == track.keys
             new == track'.keys
         IN  IF HasRow(old, lastOp'.row)
             THEN /\ new = SelectSeq(old, LAMBDA x : x.row # lastOp'.row)
                  /\ Len(new) = Len(old) - 1
             ELSE new = old]_vars

\* C4's case: a delete_key at a row the track has no key at, on a track that
\* has keys on both sides of it.
C4_Witness ==
    /\ lastOp.op = "delete_key"
    /\ ~lastOp.found
    /\ Len(track.keys) = 2
    /\ track.keys[1].row < lastOp.row
    /\ lastOp.row < track.keys[2].row

ValueOf(key) == FracOfInt(F32Num(key.value))

\* C5: get_value at a key's own row returns exactly that key's value, for the
\* first, an interior or the last key, of any interpolation kind.
C5_ValueAtKeyRow ==
    lastOp.op = "get_value" =>
        \A i \in 1..Len(track.keys) :
            lastOp.row = 2 * track.keys[i].row => result = ValueOf(track.keys[i])

\* C5's case: get_value at the row of an interior key that is not Step and
\* whose neighbours hold another value.
C5_Witness ==
    /\ lastOp.op = "get_value"
    /\ Len(track.keys) = 3
    /\ lastOp.row = 2 * track.keys[2].row
    /\ track.keys[2].interpolation = Smooth
    /\ track.keys[1].value # track.keys[2].value
    /\ track.keys[3].value # track.keys[2].value
    /\ result = ValueOf(track.keys[2])

\* C6: for a non-empty track, get_value at any row at or before the first
\* key's row (negative rows included) returns the first key's value, and at
\* any row at or after the last key's row returns the last key's value.
C6_FlatExtrapolation ==
    (lastOp.op = "get_value" /\ Len(track.keys) > 0) =>
        LET first == track.keys[1]
            last == track.keys[Len(track.keys)]
        IN  /\ lastOp.row <= 2 * first.row => result = ValueOf(first)
            /\ lastOp.row >= 2 * last.row => result = ValueOf(last)

\* C6's case: get_value at a negative row of a track whose first key is not
\* Step and whose second key holds another value.
C6_Witness ==
    /\ lastOp.op = "get_value"
    /\ lastOp.row < 0
    /\ Len(track.keys) >= 2
    /\ track.keys[1].interpolation = Linear
    /\ track.keys[1].value # track.keys[2].value
    /\ result = ValueOf(track.keys[1])

\* C7: when the lower key of a segment is Step, get_value at every row r with
\* lower.row <= r < higher.row returns lower.value and at higher.row returns
\* higher.value; for the keys {0: 1.0, 5: 0.0, 10: 1.0}, all Step, rows 0..4
\* give 1.0, rows 5..9 give 0.0 and row 10 gives 1.0.
C7_StepHoldsThenJumps ==
    lastOp.op = "get_value" =>
        /\ \A i \in 1..(Len(track.keys) - 1) :
              LET lower == track.keys[i]
                  higher == track.keys[i + 1]
              IN  lower.interpolation = Step =>
                    /\ (2 * lower.row <= lastOp.row /\ lastOp.row < 2 * higher.row)
                          => result = ValueOf(lower)
                    /\ lastOp.row = 2 * higher.row => result = ValueOf(higher)
        /\ track.keys = ThreeKeys =>
              /\ (0 <= lastOp.row /\ lastOp.row < 10) => result = FracOfInt(1)
              /\ (10 <= lastOp.row /\ lastOp.row < 20) => result = FracOfInt(0)
              /\ lastOp.row = 20 => result = FracOfInt(1)

\* C7's case: get_value at row 9 of the three Step keys of test_three_keys,
\* the last row of the segment from 5 to 10.
C7_Witness ==
    /\ lastOp.op = "get_value"
    /\ track.keys = ThreeKeys
    /\ lastOp.row = 18
    /\ result = FracOfInt(0)

\* The bracket C8 describes: the greatest key whose row is <= floor(row).
C8_Lower(keys, row2) ==
    CHOOSE i \in 1..Len(keys) :
        /\ keys[i].row <= row2 \div 2
        /\ \A j \in 1..Len(keys) : keys[j].row <= row2 \div 2 => keys[j].row <= keys[i].row

\* C8: for every row, whole or fractional, strictly after the first key's row
\* and strictly before the last key's row, get_value returns
\* lower.value + (higher.value - lower.value) * interpolate(lower.interpolation, t)
\* with lower the greatest key whose row <= floor(row), higher the next key and
\* t = (row - lower.row) / (higher.row - lower.row); a fractional row inside
\* the first segment is interpolated, not clamped to the first key's value.
C8_InterpolatesBetweenKeys ==
    (/\ lastOp.op = "get_value"
     /\ Len(track.keys) >= 2
     /\ 2 * track.keys[1].row < lastOp.row
     /\ lastOp.row < 2 * track.keys[Len(track.keys)].row) =>
        LET i == C8_Lower(track.keys, lastOp.row)
            lower == track.keys[i]
            higher == track.keys[i + 1]
            t == Frac(lastOp.row - 2 * lower.row, 2 * (higher.row - lower.row))
            it == interpolate(lower.interpolation, t)
            lv == F32Num(lower.value)
            hv == F32Num(higher.value)
        IN  result = Frac(lv * it.den + (hv - lv) * it.num, it.den)

RECURSIVE WholeLog(_)
WholeLog(ms) ==
    IF ms = <<>> THEN <<>>
    ELSE (IF WholeEffect(Head(ms)) = NoEvent THEN <<>> ELSE <<WholeEffect(Head(ms))>>)
            \o WholeLog(Tail(ms))

\* C1: however the byte stream is split into reads, the sequence of track
\* mutations applied and events returned is the sequence obtained when every
\* message is delivered whole (compared once every sent byte is consumed).
C1_ChunkingInvisible ==
    (alive = "ok" /\ state = "New" /\ sock = <<>>) => log = WholeLog(sent)

\* C10: a completed message is handled once, in state Complete: a set-key or
\* delete-key message is applied to the track at its track index and returns no
\* event; a row-change, pause or save-request message changes no track and
\* returns exactly one event of its kind; the buffer is cleared either way.
C10_CompleteHandlesOnce ==
    [][\A m \in ClientMsgs :
         (state = "Complete" /\ state' = "New" /\ cmd = Encode(m)) =>
            /\ cmd' = <<>>
            /\ CASE m.tag = 0 ->
                     /\ ret' = RetNone
                     /\ tracks' = [tracks EXCEPT ![m.track + 1].keys =
                                      set_key(@, Key(m.row, m.value, m.interp))]
                     /\ log' = Append(log, Entry("set_key", m.track, m.row, m.value,
                                                  m.interp, FALSE))
                 [] m.tag = 1 ->
                     /\ ret' = RetNone
                     /\ tracks' = [tracks EXCEPT ![m.track + 1].keys =
                                      delete_key(@, m.row)]
                     /\ log' = Append(log, Entry("delete_key", m.track, m.row, 0,
                                                  Step, FALSE))
                 [] m.tag = 3 ->
                     /\ ret' = RetSome(Entry("SetRow", 0, m.row, 0, Step, FALSE))
                     /\ tracks' = tracks
                     /\ log' = Append(log, ret'.event)
                 [] m.tag = 4 ->
                     /\ ret' = RetSome(Entry("Pause", 0, 0, 0, Step, m.flag = 1))
                     /\ tracks' = tracks
                     /\ log' = Append(log, ret'.event)
                 [] m.tag = 5 ->
                     /\ ret' = RetSome(Entry("SaveTracks", 0, 0, 0, Step, FALSE))
                     /\ tracks' = tracks
                     /\ log' = Append(log, ret'.event)]_vars

\* C10's case: a set-key message was applied to track 0 without an event, and
\* the row-change message after it has just returned its one event.
C10_Witness ==
    /\ state = "New"
    /\ cmd = <<>>
    /\ sent = <<SetKeyMsg(0, 1, F32Bits(1), 1), SetRowMsg(1)>>
    /\ Len(log) = 2
    /\ log[1].kind = "set_key"
    /\ ret = RetSome(Entry("SetRow", 0, 1, 0, Step, FALSE))
    /\ tracks[1].keys = <<Key(1, F32Bits(1), Linear)>>

\* C9: for every track collection a live client can hold,
\* RocketPlayer::deserialize(client.serialize()) has the same number of tracks
\* in the same order, each with the same name, the same key count and, key by
\* key, the same row, value and interpolation kind.
C9_RoundTrip ==
    player # NoPlayer =>
        /\ player.built /\ ~player.panicked
        /\ Len(player.tracks) = Len(saved)
        /\ \A i \in 1..Len(saved) :
              /\ player.tracks[i].name = saved[i].name
              /\ Len(player.tracks[i].keys) = Len(saved[i].keys)
              /\ \A k \in 1..Len(saved[i].keys) :
                    /\ player.tracks[i].keys[k].row = saved[i].keys[k].row
                    /\ player.tracks[i].keys[k].value = saved[i].keys[k].value
                    /\ player.tracks[i].keys[k].interpolation
                          = saved[i].keys[k].interpolation

\* C9's case: a player built from the blob of two tracks, "bc" then "a", the
\* first with the two keys 1 and 258.
C9_Witness ==
    /\ player.built
    /\ Len(player.tracks) = 2
    /\ player.tracks[1].name = <<98, 99>>
    /\ Len(player.tracks[1].keys) = 2
    /\ player.tracks[1].keys[2].row = 258
    /\ player.tracks[1].keys[2].value = F32Bits(2)
    /\ player.tracks[1].keys[2].interpolation = Smooth

\* C11: poll_events returns None only when the socket would block: at every
\* return of None the read made in that call found no bytes, so no byte that
\* has already arrived is left unread (a row-change or pause message buffered
\* behind a set-key or delete-key message has been consumed).
C11_NoneOnlyWhenWouldBlock ==
    [][(polling /\ ~polling' /\ ret'.kind = "None") =>
          (ReadKind = "WouldBlock" /\ avail' = 0)]_vars

\* C12: one poll call never blocks the caller: every poll_events call returns
\* (an event, no event or an error) after finitely many turns of its loop,
\* whatever the socket does, the editor closing the connection in the middle
\* of a message included.  (A call that panics is C23's matter.)
C12_PollEventsReturns == polling ~> (~polling \/ alive = "panic")

\* A turn of the loop of poll_events: a step of a running call that is not the
\* editor's (no piece arrives, the connection is not closed or reset).
PollTurn == polling /\ alive = "ok" /\ peer' = peer /\ arrivals' = arrivals

\* C13: in state New and in state Incomplete, a read that fails otherwise than
\* by would-block, the editor's disconnection included, makes the poll return
\* an I/O error; would-block is the only read result reported as "no event".
C13_ReadFailureIsError ==
    [][(PollTurn /\ state \in {"New", "Incomplete"}) =>
          /\ ReadKind \in {"Err", "Eof"} => (ret'.kind = "Err" /\ ~polling')
          /\ (ret'.kind = "None" /\ ~polling') => ReadKind = "WouldBlock"]_vars

KnownTags == {0, 1, 3, 4, 5}

\* C14: a tag byte outside {0, 1, 3, 4, 5} (99, the send-only tag 2) is
\* consumed alone: reading it takes that one byte and goes to Complete, and
\* Complete changes no track, returns no event, does not fail, reads nothing
\* more and goes back to New with an empty buffer, so the next byte is a tag.
C14_UnknownTagIsNoOp ==
    [][/\ (PollTurn /\ state = "New" /\ ReadKind = "Ok" /\ Head(sock) \notin KnownTags) =>
            /\ state' = "Complete"
            /\ cmd' = <<Head(sock)>>
            /\ sock' = Tail(sock)
            /\ tracks' = tracks /\ log' = log /\ alive' = "ok"
       /\ (PollTurn /\ state = "Complete" /\ cmd[1] \notin KnownTags) =>
            /\ state' = "New"
            /\ cmd' = <<>>
            /\ sock' = sock
            /\ tracks' = tracks /\ log' = log /\ alive' = "ok"
            /\ ret' = RetNone]_vars

\* C14's case: tag 99 was consumed without an event and the row-change
\* message after it has been decoded from its own tag.
C14_Witness ==
    /\ sent = <<Msg(99, 0, 0, 0, 0, 0), SetRowMsg(1)>>
    /\ state = "New"
    /\ sock = <<>>
    /\ alive = "ok"
    /\ log = <<Entry("SetRow", 0, 1, 0, Step, FALSE)>>
    /\ ret = RetSome(Entry("SetRow", 0, 1, 0, Step, FALSE))

\* C16: the interpolation code byte of a set-key message decodes to Step,
\* Linear, Smooth, Ramp for 0, 1, 2, 3 and to Step for every code 4..255; the
\* key is set on the track with that kind and the poll does not fail.
C16_UnknownCodeIsStep ==
    [][/\ (PollTurn /\ state = "Complete" /\ cmd[1] = 0) =>
            \A code \in 0..255 :
               InterpolationFromU8(code)
                  = (CASE code = 0 -> Step [] code = 1 -> Linear [] code = 2 -> Smooth
                       [] code = 3 -> Ramp [] OTHER -> Step)
       /\ \A m \in PollMsgs :
            (/\ PollTurn /\ state = "Complete" /\ cmd = Encode(m)
             /\ m.tag = 0 /\ m.track < Len(tracks)) =>
               /\ tracks' = [tracks EXCEPT ![m.track + 1].keys =
                                set_key(@, Key(m.row, m.value,
                                               IF m.interp \in 0..3 THEN m.interp
                                               ELSE Step))]
               /\ alive' = "ok"
               /\ ret' = RetNone
               /\ state' = "New"]_vars

\* C16's case: the set-key message with code 255 was applied as a Step key.
C16_Witness ==
    /\ sent = <<SetKeyMsg(0, 2, F32Bits(1), 255)>>
    /\ state = "New"
    /\ alive = "ok"
    /\ Len(log) = 1
    /\ tracks[1].keys = <<Key(2, F32Bits(1), Step)>>

\* The step on which state New has read a tag byte.
TagRead == PollTurn /\ state = "New" /\ ReadKind = "Ok"

\* The machine leaves New for Incomplete(n) when n > 0, for Complete when n = 0.
TagMoves(n) ==
    /\ remaining' = n
    /\ state' = IF n > 0 THEN "Incomplete" ELSE "Complete"

\* C18 as stated: on a tag byte in state New the payload length required is
\* one of 0, 1, 4, 8 or 9; the machine moves to Incomplete(that number) when it
\* is positive and to Complete when it is zero.
C18_PayloadLengthAsStated ==
    [][TagRead => \E n \in {0, 1, 4, 8, 9} : TagMoves(n)]_vars

\* C18, amended: the payload length required is 13 for a set-key tag, 8 for
\* delete-key, 4 for row-change, 1 for pause and 0 for save-request and for
\* any other tag (so one of 0, 1, 4, 8 or 13); the machine moves to
\* Incomplete(that number) when it is positive and to Complete when it is zero.
C18_PayloadLength ==
    [][TagRead =>
          TagMoves(CASE Head(sock) = 0 -> 13 [] Head(sock) = 1 -> 8
                     [] Head(sock) = 3 -> 4 [] Head(sock) = 4 -> 1
                     [] OTHER -> 0)]_vars

\* C18's case: the tag of a set-key message has been read.
C18_Witness ==
    /\ state = "Incomplete"
    /\ cmd = <<0>>
    /\ remaining = 13
    /\ ret = RetIncomplete

\* C19: the command buffer holds exactly the bytes received for the current
\* message: it is empty in state New; in state Incomplete(r), r > 0 and its
\* length plus r is 1 + the payload length of its tag; in state Complete its
\* length is 1 + the payload length of its tag; also after reads that returned
\* fewer bytes than asked for.
C19_BufferIsBytesReceived ==
    /\ state = "New" => cmd = <<>>
    /\ state = "Incomplete" =>
          /\ remaining > 0
          /\ Len(cmd) + remaining = 1 + PayloadLen(cmd[1])
    /\ state = "Complete" => Len(cmd) = 1 + PayloadLen(cmd[1])

TrackNameAt(ts, i) == ts[i].name

HasName(ts, name) == \E i \in 1..Len(ts) : ts[i].name = name

\* C15: in a live client the track names are pairwise distinct; the
\* collection only grows by appending (no track moves or changes its name); an
\* index once returned for a name still holds that name after every later call
\* and poll, and every later lookup of a name in the collection returns the
\* index that holds it; a name not yet present is created with zero keys at
\* index len-1.
C15_NamesDistinctIndicesStable ==
    [][/\ \A i, j \in 1..Len(tracks') :
             i # j => TrackNameAt(tracks', i) # TrackNameAt(tracks', j)
       /\ Len(tracks') >= Len(tracks)
       /\ \A i \in 1..Len(tracks) : TrackNameAt(tracks', i) = TrackNameAt(tracks, i)
       /\ lookup'.found =>
             /\ lookup'.index + 1 \in 1..Len(tracks')
             /\ TrackNameAt(tracks', lookup'.index + 1) = lookup'.name
       /\ (lookup' # lookup /\ HasName(tracks, lookup'.name)) =>
             /\ lookup'.found
             /\ TrackNameAt(tracks, lookup'.index + 1) = lookup'.name
             /\ tracks' = tracks
       /\ (lookup' # lookup /\ lookup'.found /\ ~HasName(tracks, lookup'.name)) =>
             /\ lookup'.op = "get_track_index_mut"
             /\ tracks' = Append(tracks, [name |-> lookup'.name, keys |-> <<>>])
             /\ lookup'.index = Len(tracks') - 1]_vars

\* C15's case: after three names were created and a key was set by a poll,
\* get_track_index finds the second name at index 1.
C15_Witness ==
    /\ Len(tracks) = 3
    /\ tracks[1].keys # <<>>
    /\ tracks[2].name = <<98>>
    /\ lookup = Lookup("get_track_index", <<98>>, 1, TRUE)

\* C17: for a player built from any list of tracks, names repeated or not,
\* get_track_index(name) returns the smallest index whose track has that name
\* and none when no track has it; get_track at that index is the track with
\* that name; no lookup adds, removes or reorders tracks.
C17_PlayerLookupFirstMatch ==
    [][/\ player' = player
       /\ (lookup' # lookup /\ lookup'.op = "get_track_index") =>
             IF HasName(player.tracks, lookup'.name)
             THEN /\ lookup'.found
                  /\ TrackNameAt(player.tracks, lookup'.index + 1) = lookup'.name
                  /\ \A j \in 1..lookup'.index :
                        TrackNameAt(player.tracks, j) # lookup'.name
             ELSE ~lookup'.found
       /\ (/\ lookup.op = "get_track_index" /\ lookup.found
           /\ lookup'.op = "get_track" /\ lookup'.index = lookup.index) =>
             /\ track' = player.tracks[lookup.index + 1]
             /\ track'.name = lookup.name]_vars

\* C17's case: of two tracks called "b", the first (index 1, without keys) was
\* found by name and fetched by that index.
C17_Witness ==
    /\ Len(player.tracks) = 3
    /\ player.tracks[1].name = <<97>>
    /\ player.tracks[2] = [name |-> <<98>>, keys |-> <<>>]
    /\ player.tracks[3] = [name |-> <<98>>, keys |-> <<Key(0, F32Bits(1), Step)>>]
    /\ lookup = Lookup("get_track", <<98>>, 1, TRUE)
    /\ track = player.tracks[2]

\* C20: deserializing a blob in which a key's u32 interpolation code is
\* outside 0..3 degrades gracefully: deserialize returns a track collection,
\* in which that key has Step interpolation and every other key is as written.
C20_UnknownCodeLoadsAsStep ==
    player # NoPlayer =>
        /\ player.built /\ ~player.panicked
        /\ Len(player.tracks) = Len(saved)
        /\ \A i \in 1..Len(saved) :
              /\ player.tracks[i].name = saved[i].name
              /\ Len(player.tracks[i].keys) = Len(saved[i].keys)
              /\ \A k \in 1..Len(saved[i].keys) :
                    player.tracks[i].keys[k]
                       = Key(saved[i].keys[k].row, saved[i].keys[k].value,
                             IF saved[i].keys[k].interpolation \in 0..3
                             THEN saved[i].keys[k].interpolation ELSE Step)

\* What the messages ms call for, in stream order: per set-key and delete-key
\* message the mutation, per row-change, pause and save-request message the
\* event with its payload; nothing for any other tag.
RECURSIVE C21_Expected(_)
C21_Expected(ms) ==
    IF ms = <<>> THEN <<>>
    ELSE LET m == Head(ms)
             e == CASE m.tag = 0 ->
                          <<Entry("set_key", m.track, m.row, m.value,
                                  IF m.interp \in 0..3 THEN m.interp ELSE Step, FALSE)>>
                    [] m.tag = 1 -> <<Entry("delete_key", m.track, m.row, 0, Step, FALSE)>>
                    [] m.tag = 3 -> <<Entry("SetRow", 0, m.row, 0, Step, FALSE)>>
                    [] m.tag = 4 -> <<Entry("Pause", 0, 0, 0, Step, m.flag = 1)>>
                    [] m.tag = 5 -> <<Entry("SaveTracks", 0, 0, 0, Step, FALSE)>>
                    [] OTHER -> <<>>
         IN  e \o C21_Expected(Tail(ms))

\* The tracks called as ts are, with the mutations among es applied in order
\* to tracks that start without keys.
RECURSIVE C21_Replay(_, _)
C21_Replay(ts, es) ==
    IF es = <<>> THEN [i \in 1..Len(ts) |-> [name |-> ts[i].name, keys |-> <<>>]]
    ELSE LET before == C21_Replay(ts, SubSeq(es, 1, Len(es) - 1))
             e == es[Len(es)]
         IN  CASE e.kind = "set_key" ->
                     [before EXCEPT ![e.track + 1].keys =
                         set_key(@, Key(e.row, e.value, e.interpolation))]
               [] e.kind = "delete_key" ->
                     [before EXCEPT ![e.track + 1].keys = delete_key(@, e.row)]
               [] OTHER -> before

\* C21: when every payload read returns all the bytes asked for, the events
\* poll_events returns are exactly the row-change, pause and save-request
\* messages of the stream, in stream order, each once and with its decoded
\* payload; and when the event of message m is returned, every set-key and
\* delete-key message before m has been applied to its track and none after m.
\* (log is what was handled so far, mutations and events, in order.)
C21_EventsInStreamOrder ==
    [][LET want == C21_Expected(sent)
       IN  /\ Len(log') <= Len(want)
           /\ log' = SubSeq(want, 1, Len(log'))
           /\ alive' = "ok" => tracks' = C21_Replay(tracks', log')
           /\ IF log' # log
              THEN /\ Len(log') = Len(log) + 1
                   /\ IF log'[Len(log')].kind \in {"SetRow", "Pause", "SaveTracks"}
                      THEN ret' = RetSome(log'[Len(log')]) /\ ~polling'
                      ELSE ret'.kind # "Some"
              ELSE ret'.kind = "Some" => ret' = ret
           /\ (/\ alive' = "ok" /\ state' = "New" /\ sock' = <<>>
               /\ peer' # "reset") => log' = want]_vars

\* C21's case: a set-key message was applied, and then the row-change message
\* after it returned its event, with the key already on the track.
C21_Witness ==
    /\ sent = <<SetKeyMsg(0, 1, F32Bits(1), 3), SetRowMsg(1)>>
    /\ ~polling
    /\ ret = RetSome(Entry("SetRow", 0, 1, 0, Step, FALSE))
    /\ Len(log) = 2
    /\ tracks[1].keys = <<Key(1, F32Bits(1), Ramp)>>

\* The name a tag-2 message carries: the bytes after the tag and the length.
C22_NameSent(bytes) == SubSeq(bytes, 6, Len(bytes))

\* C22: the names sent to the editor in tag-2 messages (each as tag 2, the
\* big-endian u32 length, the name) are always the track names of the live
\* collection in index order; get_track_index_mut sends one such message
\* exactly when the name is not yet in the collection and nothing for a known
\* name; when the send fails the error is returned and no track is added.
C22_AnnouncedAreTrackNames ==
    [][/\ Len(announced') = Len(tracks')
       /\ \A i \in 1..Len(tracks') :
             /\ announced'[i][1] = 2
             /\ <<announced'[i][2], announced'[i][3], announced'[i][4]>> = <<0, 0, 0>>
             /\ announced'[i][5] = Len(TrackNameAt(tracks', i))
             /\ C22_NameSent(announced'[i]) = TrackNameAt(tracks', i)
       /\ (lookup' # lookup /\ lookup'.op = "get_track_index_mut") =>
             IF HasName(tracks, lookup'.name)
             THEN announced' = announced /\ lookup'.found
             ELSE IF lookup'.found
                  THEN /\ Len(announced') = Len(announced) + 1
                       /\ SubSeq(announced', 1, Len(announced)) = announced
                       /\ C22_NameSent(announced'[Len(announced')]) = lookup'.name
                  ELSE announced' = announced /\ tracks' = tracks
       /\ lookup' = lookup => announced' = announced]_vars

\* C22's case: two names were announced and created; the connection closed
\* and the send for a third name failed, which added no track.
C22_Witness ==
    /\ peer = "closed"
    /\ announced = <<<<2, 0, 0, 0, 1, 98>>, <<2, 0, 0, 0, 1, 97>>>>
    /\ Len(tracks) = 2
    /\ tracks[1].name = <<98>>
    /\ lookup = Lookup("get_track_index_mut", <<99>>, -1, FALSE)

\* C23: handling a complete set-key or delete-key message never fails,
\* whatever track index it carries: the poll returns normally and the machine
\* goes back to New with an empty buffer, and for an index at or beyond the
\* number of tracks no track is changed.
C23_AnyTrackIndexIsHandled ==
    [][(PollTurn /\ state = "Complete" /\ cmd[1] \in {0, 1}) =>
          /\ alive' = "ok"
          /\ ~polling'
          /\ state' = "New"
          /\ cmd' = <<>>
          /\ (cmd[2] * 16777216 + cmd[3] * 65536 + cmd[4] * 256 + cmd[5]
                 >= Len(tracks)) => tracks' = tracks]_vars

\* C24: whenever get_value runs its bracket search (the track has keys and
\* floor(row) is strictly between the first and the last key's row),
\* get_lower_bound_position returns pos with 0 <= pos and pos + 1 < key count,
\* keys[pos].row <= floor(row) < keys[pos + 1].row, and get_value returns a
\* value (no subtraction underflows, no index is out of bounds).
C24_BracketInBounds ==
    LET keys == track.keys
        fl == lastOp.row \div 2
    IN  (/\ lastOp.op = "get_value"
         /\ Len(keys) > 0
         /\ keys[1].row < fl
         /\ fl < keys[Len(keys)].row) =>
            LET pos == get_lower_bound_position(keys, fl)
            IN  /\ 0 <= pos
                /\ pos + 1 < Len(keys)
                /\ keys[pos + 1].row <= fl
                /\ fl < keys[pos + 2].row
                /\ result # Panic
                /\ result.den > 0

\* C24's case: get_value at row 1.5 of keys at rows 0, 1 and 2: the bracket is
\* the second and third key, and the value is halfway between theirs.
C24_Witness ==
    /\ lastOp.op = "get_value"
    /\ lastOp.row = 3
    /\ Len(track.keys) = 3
    /\ track.keys[2] = Key(1, F32Bits(0), Linear)
    /\ track.keys[3].value = F32Bits(1)
    /\ result = Frac(1, 2)

====
